---------------------------- MODULE Spec2Model ----------------------------
(***************************************************************************)
(* Model of the IRD tax assistant: the ingestion pipeline (load PDF, clean *)
(* text, enrich metadata, chunk, index) and the query pipeline (retrieve,  *)
(* filter, format, call the LLM, extract citations).                       *)
(*                                                                         *)
(* Python strings are sequences of one-character strings.  Python values   *)
(* stored in metadata are tagged (PyInt, PyStr) so that an int and a str   *)
(* can be compared, as Python compares them (never equal).                 *)
(***************************************************************************)
EXTENDS Integers, Sequences, FiniteSets, TLC

VARIABLES
    \* ---- RAGChain.query, one variable per local of the method
    pc,             \* position of the running query
    question,       \* the question argument
    top_k,          \* search_kwargs k of the chain's retriever
    retrieved,      \* what self.retriever.invoke(question) returned
    docs,           \* the local `docs` (reassigned by the filter)
    context_str,    \* the local `context_str`
    prompt,         \* what the chain handed to the LLM
    answer,         \* the LLM's output
    citations,      \* the local `citations`
    result,         \* the returned dict
    steps,          \* the steps the running query has performed, in order
    \* ---- the API service (routes.py module state, disk)
    vectorstore,    \* vector_db.vectorstore: "None" or "Chroma"
    store,          \* the chunks persisted in settings.VECTOR_DB_PATH
    data_folder,    \* the files of settings.RAW_DATA_PATH
    request,        \* the request or batch run handled last
    response,       \* the last HTTP response of the service
    chunk_size,     \* TextChunker.chunk_size
    chunk_overlap,  \* TextChunker.chunk_overlap
    chunker_args,   \* the arguments TextChunker was constructed with
    \* ---- DocumentLoader / MetadataExtractor / TextChunker applied to inputs
    load_in,        \* the last input of a loader operation
    load_out,       \* its result
    split_seen      \* every <<input, output>> of split_documents so far

queryVars == <<pc, question, top_k, retrieved, docs, context_str, prompt, answer,
               citations, result, steps>>
serviceVars == <<vectorstore, store, data_folder, request, response>>
chunkerVars == <<chunk_size, chunk_overlap, chunker_args>>
loadVars == <<load_in, load_out, split_seen>>
vars == <<queryVars, serviceVars, chunkerVars, loadVars>>

-----------------------------------------------------------------------------
(* Bounds *)

\* longest list a retriever returns (QueryRequest.k is at most this)
MaxDocs == 3
\* most pages of a PDF
MaxPages == 3
\* a chunk size and overlap passed to TextChunker, next to the defaults
SmallChunkSize == 6
SmallChunkOverlap == 2
\* CHUNK_SIZE and CHUNK_OVERLAP as the environment may set them
EnvChunkSize == 40
EnvChunkOverlap == 10
\* most chunks the persisted vector store holds
MaxStore == 4
\* largest k of a request to the service (QueryRequest allows 1 to 10)
MaxK == 2

\* tokens of a text handed to clean_text
MaxTokens == 5

-----------------------------------------------------------------------------
(* Python values and strings *)

PyInt(n) == [t |-> "int", n |-> n, s |-> <<>>]
PyStr(s) == [t |-> "str", n |-> 0, s |-> s]
PyNone == [t |-> "none", n |-> 0, s |-> <<>>]

\* bool(v)
Truthy(v) ==
    CASE v.t = "int" -> v.n # 0
      [] v.t = "str" -> v.s # <<>>
      [] OTHER -> FALSE

\* a or b
PyOr(a, b) == IF Truthy(a) THEN a ELSE b

Min(a, b) == IF a < b THEN a ELSE b

Rep(c, n) == [i \in 1..n |-> c]

DigitChar == <<"0", "1", "2", "3", "4", "5", "6", "7", "8", "9">>

RECURSIVE IntToStr(_)
IntToStr(n) ==
    IF n < 10 THEN <<DigitChar[n + 1]>>
    ELSE IntToStr(n \div 10) \o <<DigitChar[(n % 10) + 1]>>

\* str(v), as an f-string renders a metadata value
Str(v) == IF v.t = "int" THEN IntToStr(v.n) ELSE v.s

\* the characters str.strip() and the regex class \s treat as whitespace
Whitespace == {" ", "\t", "\n", "\r", "\f"}

\* str.strip()
Strip(s) ==
    IF \A i \in 1..Len(s) : s[i] \in Whitespace THEN <<>>
    ELSE LET first == CHOOSE i \in 1..Len(s) :
                          /\ s[i] \notin Whitespace
                          /\ \A j \in 1..(i - 1) : s[j] \in Whitespace
             last == CHOOSE i \in 1..Len(s) :
                         /\ s[i] \notin Whitespace
                         /\ \A j \in (i + 1)..Len(s) : s[j] \in Whitespace
         IN  SubSeq(s, first, last)

\* needle in hay
Contains(hay, needle) ==
    \E i \in 0..(Len(hay) - Len(needle)) :
        SubSeq(hay, i + 1, i + Len(needle)) = needle

\* s.endswith(suffix)
EndsWith(s, suffix) ==
    /\ Len(s) >= Len(suffix)
    /\ SubSeq(s, Len(s) - Len(suffix) + 1, Len(s)) = suffix

\* s.replace(a, b) for a single character a
ReplaceChar(s, a, b) == [i \in 1..Len(s) |-> IF s[i] = a THEN b ELSE s[i]]

\* dict.get(key, default)
Get(m, key, default) == IF key \in DOMAIN m THEN m[key] ELSE default

-----------------------------------------------------------------------------
(* RAGChain *)

fallback_msg ==
    <<"T", "h", "i", "s", " ", "i", "n", "f", "o", "r", "m", "a", "t", "i",
      "o", "n", " ", "i", "s", " ", "n", "o", "t", " ", "a", "v", "a", "i",
      "l", "a", "b", "l", "e", " ", "i", "n", " ", "t", "h", "e", " ", "p",
      "r", "o", "v", "i", "d", "e", "d", " ", "I", "R", "D", " ", "d", "o",
      "c", "u", "m", "e", "n", "t", "s", ".">>

\* len(content) > RelevantLen keeps a chunk
RelevantLen == 50
\* doc.page_content[:PreviewLen]
PreviewLen == 150

UnknownSource == <<"U", "n", "k", "n", "o", "w", "n", " ", "S", "o", "u", "r", "c", "e">>
Unknown == <<"U", "n", "k", "n", "o", "w", "n">>
SourceTag == <<"[", "S", "o", "u", "r", "c", "e", ":", " ">>
PageTag == <<" ", "-", " ", "P", "a", "g", "e", " ">>

\* one chunk_str of _format_docs
FormatChunk(doc) ==
    LET source == Get(doc.metadata, "source_document", PyStr(UnknownSource))
        page == Get(doc.metadata, "page_number", PyStr(<<"?">>))
        content == ReplaceChar(doc.page_content, "\n", " ")
    IN  SourceTag \o Str(source) \o PageTag \o Str(page) \o <<"]", "\n">> \o content

RECURSIVE JoinChunks(_)
JoinChunks(ss) ==
    IF ss = <<>> THEN <<>>
    ELSE IF Len(ss) = 1 THEN ss[1]
    ELSE ss[1] \o <<"\n", "\n">> \o JoinChunks(Tail(ss))

_format_docs(ds) == JoinChunks([i \in 1..Len(ds) |-> FormatChunk(ds[i])])

_is_relevant_nostrip(doc, q) == Len(doc.page_content) > RelevantLen

_is_relevant(doc, q) ==
    LET content == Strip(doc.page_content)
    IN  Len(content) > RelevantLen

\* the list comprehension of query: docs kept by _is_relevant, in order
FilterDocs(ds, q) == SelectSeq(ds, LAMBDA d : _is_relevant(d, q))

CitationKey_sourceonly(source, page) == Str(source)

\* key = f"{source}_{page}"
CitationKey(source, page) == Str(source) \o <<"_">> \o Str(page)

\* unique_citations is an insertion-ordered dict: a sequence of <<key, value>>
RECURSIVE ExtractInto(_, _)
ExtractInto(unique_citations, ds) ==
    IF ds = <<>> THEN unique_citations
    ELSE LET doc == Head(ds)
             source == Get(doc.metadata, "source_document", PyStr(Unknown))
             page == Get(doc.metadata, "page_number", PyStr(<<"?">>))
             key == CitationKey(source, page)
             present == \E i \in 1..Len(unique_citations) : unique_citations[i][1] = key
             entry == [document |-> source,
                       page |-> page,
                       content_preview |->
                           SubSeq(doc.page_content, 1, Min(PreviewLen, Len(doc.page_content)))
                           \o <<".", ".", ".">>]
         IN  ExtractInto(IF present THEN unique_citations
                         ELSE Append(unique_citations, <<key, entry>>),
                         Tail(ds))

_extract_citations(source_docs) ==
    LET unique_citations == ExtractInto(<<>>, source_docs)
    IN  [i \in 1..Len(unique_citations) |-> unique_citations[i][2]]

ContextOrFallback_nofallback(ctx) == ctx

\* if not context_str.strip(): context_str = fallback_msg
ContextOrFallback(ctx) == IF Strip(ctx) = <<>> THEN fallback_msg ELSE ctx

FinalCitations_exact(ans, cits) == IF ans = fallback_msg THEN <<>> ELSE cits

\* if fallback_msg in answer: citations = []
FinalCitations(ans, cits) == IF Contains(ans, fallback_msg) THEN <<>> ELSE cits

\* RAGChain.query as a whole: the dict it returns when the retriever returns
\* found and the LLM answers llm_answer
RAGChain_query(q, found, llm_answer) ==
    LET filtered == FilterDocs(found, q)
        context == ContextOrFallback(_format_docs(filtered))
        cits == _extract_citations(filtered)
    IN  [answer |-> llm_answer, citations |-> FinalCitations(llm_answer, cits)]

-----------------------------------------------------------------------------
(* TextPreprocessor *)

\* the characters the regex class \w matches
WordChars ==
    {"a", "b", "c", "d", "e", "f", "g", "h", "i", "j", "k", "l", "m", "n", "o",
     "p", "q", "r", "s", "t", "u", "v", "w", "x", "y", "z",
     "A", "B", "C", "D", "E", "F", "G", "H", "I", "J", "K", "L", "M", "N", "O",
     "P", "Q", "R", "S", "T", "U", "V", "W", "X", "Y", "Z",
     "0", "1", "2", "3", "4", "5", "6", "7", "8", "9", "_"}

Placeholder == <<"|", "|", "P", "A", "R", "A", "G", "R", "A", "P", "H", "|", "|">>

\* last index of the run of characters of class starting at i (s[i] is in class)
RunEnd(s, i, class) ==
    CHOOSE e \in i..Len(s) :
        /\ \A j \in i..e : s[j] \in class
        /\ e = Len(s) \/ s[e + 1] \notin class

\* re.sub(r'(\w+)-\n(\w+)', r'\1\2', s) from position i on: leftmost matches,
\* greedy, the scan resumes after each match
RECURSIVE FixHyphens(_, _)
FixHyphens(s, i) ==
    IF i > Len(s) THEN <<>>
    ELSE IF s[i] \in WordChars
    THEN LET e == RunEnd(s, i, WordChars)
         IN  IF /\ e + 3 <= Len(s)
                /\ s[e + 1] = "-"
                /\ s[e + 2] = "\n"
                /\ s[e + 3] \in WordChars
             THEN LET f == RunEnd(s, e + 3, WordChars)
                  IN  SubSeq(s, i, e) \o SubSeq(s, e + 3, f) \o FixHyphens(s, f + 1)
             ELSE SubSeq(s, i, e) \o FixHyphens(s, e + 1)
    ELSE <<s[i]>> \o FixHyphens(s, i + 1)

\* re.sub(r'\n\s*\n', '||PARAGRAPH||', s) from position i on: a match starts
\* at a newline and runs to the last newline of the whitespace run it starts
RECURSIVE MarkParagraphs(_, _)
MarkParagraphs(s, i) ==
    IF i > Len(s) THEN <<>>
    ELSE IF s[i] = "\n"
    THEN LET r == RunEnd(s, i, Whitespace)
             ends == {j \in (i + 1)..r : s[j] = "\n"}
         IN  IF ends = {} THEN <<s[i]>> \o MarkParagraphs(s, i + 1)
             ELSE LET last == CHOOSE j \in ends : \A k \in ends : k <= j
                  IN  Placeholder \o MarkParagraphs(s, last + 1)
    ELSE <<s[i]>> \o MarkParagraphs(s, i + 1)

\* s.replace(pat, rep) from position i on
RECURSIVE ReplaceAll(_, _, _, _)
ReplaceAll(s, i, pat, rep) ==
    IF i > Len(s) THEN <<>>
    ELSE IF i + Len(pat) - 1 <= Len(s) /\ SubSeq(s, i, i + Len(pat) - 1) = pat
    THEN rep \o ReplaceAll(s, i + Len(pat), pat, rep)
    ELSE <<s[i]>> \o ReplaceAll(s, i + 1, pat, rep)

\* re.sub(r'[ \t]+', ' ', s) from position i on
RECURSIVE CollapseBlanks(_, _)
CollapseBlanks(s, i) ==
    IF i > Len(s) THEN <<>>
    ELSE IF s[i] \in {" ", "\t"}
    THEN <<" ">> \o CollapseBlanks(s, RunEnd(s, i, {" ", "\t"}) + 1)
    ELSE <<s[i]>> \o CollapseBlanks(s, i + 1)

clean_text(text) ==
    IF text = <<>> THEN <<>>
    ELSE LET t1 == FixHyphens(text, 1)
             t2 == MarkParagraphs(t1, 1)
             t3 == ReplaceChar(t2, "\n", " ")
             t4 == ReplaceAll(t3, 1, Placeholder, <<"\n", "\n">>)
             t5 == CollapseBlanks(t4, 1)
         IN  Strip(t5)

\* len(cleaned_content) > MinPageLen keeps a page
MinPageLen == 10

RECURSIVE preprocess_documents_nometa(_)
preprocess_documents_nometa(documents) ==
    IF documents = <<>> THEN <<>>
    ELSE LET doc == Head(documents)
             cleaned_content == clean_text(doc.page_content)
             rest == preprocess_documents_nometa(Tail(documents))
         IN  IF Len(cleaned_content) > MinPageLen
             THEN <<[page_content |-> cleaned_content, metadata |-> <<>>]>> \o rest
             ELSE rest

RECURSIVE preprocess_documents(_)
preprocess_documents(documents) ==
    IF documents = <<>> THEN <<>>
    ELSE LET doc == Head(documents)
             cleaned_content == clean_text(doc.page_content)
             rest == preprocess_documents(Tail(documents))
         IN  IF Len(cleaned_content) > MinPageLen
             THEN <<[page_content |-> cleaned_content, metadata |-> doc.metadata]>> \o rest
             ELSE rest

-----------------------------------------------------------------------------
(* MetadataExtractor *)

\* os.path.basename(path): what follows the last "/"
Basename(path) ==
    LET slashes == {i \in 1..Len(path) : path[i] = "/"}
    IN  IF slashes = {} THEN path
        ELSE LET last == CHOOSE i \in slashes : \A j \in slashes : j <= i
             IN  SubSeq(path, last + 1, Len(path))

_generate_citation_string(filename, page_num) ==
    filename \o <<" ", "-", " ", "P", "a", "g", "e", " ">> \o IntToStr(page_num)

DisplayPage_raw(raw_page) == raw_page

\* display_page = raw_page + 1
DisplayPage(raw_page) == raw_page + 1

\* the returned dict, and the input document as the call leaves it
enrich_metadata(doc, file_path) ==
    LET meta == doc.metadata
        filename == Basename(file_path)
        raw_page == Get(meta, "page", PyInt(0))
        display_page == DisplayPage(raw_page.n)
        added == ("source_document" :> PyStr(filename))
                 @@ ("file_path" :> PyStr(file_path))
                 @@ ("page_number" :> PyInt(display_page))
                 @@ ("citation" :> PyStr(_generate_citation_string(filename, display_page)))
    IN  [meta |-> added @@ meta, doc |-> doc]

process_documents(documents, file_path) ==
    [i \in 1..Len(documents) |->
        [page_content |-> documents[i].page_content,
         metadata |-> enrich_metadata(documents[i], file_path).meta]]

-----------------------------------------------------------------------------
(* DocumentLoader *)

\* PyPDFLoader(file_path).load(): one document per page, 'page' counted from 0
PyPDFLoad(file_path, pages) ==
    [i \in 1..Len(pages) |->
        [page_content |-> pages[i],
         metadata |-> ("source" :> PyStr(file_path)) @@ ("page" :> PyInt(i - 1))]]

\* pdf.pages is the text of the pages; pdf.readable is FALSE for a file
\* PyPDFLoader raises on
load_pdf(file_path, pdf) ==
    IF ~pdf.readable THEN <<>>
    ELSE LET raw_docs == PyPDFLoad(file_path, pdf.pages)
             cleaned_docs == preprocess_documents(raw_docs)
         IN  process_documents(cleaned_docs, file_path)

-----------------------------------------------------------------------------
(* TextChunker *)

\* settings.CHUNK_SIZE and settings.CHUNK_OVERLAP when the environment sets none
DefaultChunkSize == 1000
DefaultChunkOverlap == 200

\* self.chunk_size = chunk_size or settings.CHUNK_SIZE
InitChunkSize(arg, setting) == PyOr(arg, PyInt(setting)).n
\* self.chunk_overlap = chunk_overlap or settings.CHUNK_OVERLAP
InitChunkOverlap(arg, setting) == PyOr(arg, PyInt(setting)).n

\* RecursiveCharacterTextSplitter on a text without separators: windows of
\* size characters, each starting size - overlap after the one before
RECURSIVE Windows(_, _, _, _)
Windows(text, start, size, overlap) ==
    LET stop == Min(start + size - 1, Len(text))
        chunk == Strip(SubSeq(text, start, stop))
        this == IF chunk = <<>> THEN <<>> ELSE <<chunk>>
    IN  IF stop >= Len(text) THEN this
        ELSE this \o Windows(text, start + size - overlap, size, overlap)

split_text(text, size, overlap) ==
    IF text = <<>> THEN <<>> ELSE Windows(text, 1, size, overlap)

RECURSIVE SplitEach(_, _, _)
SplitEach(documents, size, overlap) ==
    IF documents = <<>> THEN <<>>
    ELSE LET doc == Head(documents)
             texts == split_text(doc.page_content, size, overlap)
         IN  [i \in 1..Len(texts) |-> [page_content |-> texts[i], metadata |-> doc.metadata]]
             \o SplitEach(Tail(documents), size, overlap)

split_documents(documents, size, overlap) ==
    IF documents = <<>> THEN <<>> ELSE SplitEach(documents, size, overlap)

TextChunker_split_documents_stateful(documents) ==
    /\ load_in' = [op |-> "split", documents |-> documents,
                   repeat |-> \E e \in split_seen : e[1] = documents]
    /\ load_out' = split_documents(documents, chunk_size, chunk_overlap)
    /\ split_seen' = split_seen \cup
                        {<<documents, split_documents(documents, chunk_size, chunk_overlap)>>}
    /\ chunk_overlap' = 0
    /\ UNCHANGED <<chunk_size, chunker_args>>

\* a call of TextChunker.split_documents on the chunker object
TextChunker_split_documents(documents) ==
    /\ load_in' = [op |-> "split", documents |-> documents,
                   repeat |-> \E e \in split_seen : e[1] = documents]
    /\ load_out' = split_documents(documents, chunk_size, chunk_overlap)
    /\ split_seen' = split_seen \cup
                        {<<documents, split_documents(documents, chunk_size, chunk_overlap)>>}
    /\ UNCHANGED <<chunk_size, chunk_overlap, chunker_args>>

-----------------------------------------------------------------------------
(* Inputs of the query pipeline *)

Questions == {<<"q", "1">>, <<"q", "2", "?">>}

Meta(source, page) ==
    ("source_document" :> PyStr(source)) @@ ("page_number" :> PyInt(page))

NameA == <<"a", ".", "p", "d", "f">>
NameB1 == <<"b", "_", "1", ".", "p", "d", "f">>

\* chunks a retriever may return: lengths on both sides of RelevantLen and of
\* PreviewLen, with and without surrounding whitespace, repeated
\* (source, page) pairs with different text, and a chunk without metadata
DocUniverse ==
    { [page_content |-> Rep("x", RelevantLen + 1), metadata |-> Meta(NameA, 1)],
      [page_content |-> Rep("y", PreviewLen + 1), metadata |-> Meta(NameA, 1)],
      [page_content |-> <<" ">> \o Rep("x", RelevantLen) \o <<"\n">>,
       metadata |-> Meta(NameA, 12)],
      [page_content |-> <<"\t">> \o Rep("z", RelevantLen + 1),
       metadata |-> Meta(NameA, 12)],
      [page_content |-> Rep("w", RelevantLen) \o <<"\n", "v">>, metadata |-> <<>>],
      [page_content |-> Rep("x", RelevantLen + 1) \o <<" ">>,
       metadata |-> Meta(NameB1, 1)] }

RECURSIVE ListsUpTo(_, _)
ListsUpTo(S, n) ==
    IF n = 0 THEN {<<>>}
    ELSE LET shorter == ListsUpTo(S, n - 1)
         IN  shorter \cup {Append(l, x) : l \in shorter, x \in S}

\* what the LLM may answer: text with a citation, the fallback sentence alone,
\* the fallback sentence inside a longer answer, and a near miss
AnswerCited ==
    <<"S", "e", "e", " ", "[", "a", ".", "p", "d", "f", " ", "-", " ", "P", "a", "g", "e", " ", "1", "]">>

Answers ==
    { AnswerCited,
      fallback_msg,
      <<"N", "o", ".", " ">> \o fallback_msg \o <<" ", "S", "o", "r", "r", "y">>,
      SubSeq(fallback_msg, 1, Len(fallback_msg) - 1) }

-----------------------------------------------------------------------------
(* RAGChain.query, step by step *)

QueryIdle == pc \in {"idle", "done", "raised"}

\* entry of RAGChain.query(question)
BeginQuery(q, top) ==
    /\ pc' = "retrieve"
    /\ question' = q
    /\ top_k' = top
    /\ retrieved' = <<>>
    /\ docs' = <<>>
    /\ context_str' = <<>>
    /\ prompt' = [context |-> <<>>, question |-> <<>>]
    /\ answer' = <<>>
    /\ citations' = <<>>
    /\ result' = [answer |-> <<>>, citations |-> <<>>]
    /\ steps' = <<>>

\* docs = self.retriever.invoke(question)
Retrieve(pool) ==
    /\ pc = "retrieve"
    /\ \E ds \in pool :
        /\ retrieved' = ds
        /\ docs' = ds
    /\ pc' = "filter"
    /\ steps' = Append(steps, "retrieve")
    /\ UNCHANGED <<question, top_k, context_str, prompt, answer, citations, result>>

\* the retriever raises: query propagates the exception
RetrieverRaises ==
    /\ pc = "retrieve"
    /\ pc' = "raised"
    /\ steps' = Append(steps, "retrieve")
    /\ UNCHANGED <<question, top_k, retrieved, docs, context_str, prompt, answer, citations, result>>

\* docs = [doc for doc in docs if self._is_relevant(doc, question)]
Filter ==
    /\ pc = "filter"
    /\ docs' = FilterDocs(docs, question)
    /\ pc' = "format"
    /\ steps' = Append(steps, "filter")
    /\ UNCHANGED <<question, top_k, retrieved, context_str, prompt, answer, citations, result>>

\* context_str = self._format_docs(docs), with the fallback for a blank one
Format ==
    /\ pc = "format"
    /\ context_str' = ContextOrFallback(_format_docs(docs))
    /\ pc' = "llm"
    /\ steps' = Append(steps, "format")
    /\ UNCHANGED <<question, top_k, retrieved, docs, prompt, answer, citations, result>>

\* answer = chain.invoke(question)
CallLLM ==
    /\ pc = "llm"
    /\ prompt' = [context |-> context_str, question |-> question]
    /\ \E a \in Answers : answer' = a
    /\ pc' = "extract"
    /\ steps' = Append(steps, "llm")
    /\ UNCHANGED <<question, top_k, retrieved, docs, context_str, citations, result>>

\* the hosted LLM call raises
LLMRaises ==
    /\ pc = "llm"
    /\ prompt' = [context |-> context_str, question |-> question]
    /\ pc' = "raised"
    /\ steps' = Append(steps, "llm")
    /\ UNCHANGED <<question, top_k, retrieved, docs, context_str, answer, citations, result>>

\* citations = self._extract_citations(docs)
Extract ==
    /\ pc = "extract"
    /\ citations' = _extract_citations(docs)
    /\ pc' = "return"
    /\ steps' = Append(steps, "extract")
    /\ UNCHANGED <<question, top_k, retrieved, docs, context_str, prompt, answer, result>>

\* the fallback check and the return statement
Return ==
    /\ pc = "return"
    /\ citations' = FinalCitations(answer, citations)
    /\ result' = [answer |-> answer, citations |-> FinalCitations(answer, citations)]
    /\ pc' = "done"
    /\ UNCHANGED <<question, top_k, retrieved, docs, context_str, prompt, answer, steps>>

QueryInit ==
    /\ pc = "idle"
    /\ question = <<>>
    /\ top_k = 0
    /\ retrieved = <<>>
    /\ docs = <<>>
    /\ context_str = <<>>
    /\ prompt = [context |-> <<>>, question |-> <<>>]
    /\ answer = <<>>
    /\ citations = <<>>
    /\ result = [answer |-> <<>>, citations |-> <<>>]
    /\ steps = <<>>

ServiceInit ==
    /\ vectorstore = "None"
    /\ store = <<>>
    /\ data_folder = {}
    /\ request = [op |-> "none"]
    /\ response = [op |-> "none", status |-> 0]

\* TextChunker() under the default settings
ChunkerInit ==
    /\ chunker_args = [chunk_size |-> PyNone, chunk_overlap |-> PyNone]
    /\ chunk_size = InitChunkSize(PyNone, DefaultChunkSize)
    /\ chunk_overlap = InitChunkOverlap(PyNone, DefaultChunkOverlap)

LoadInit ==
    /\ load_in = [op |-> "none"]
    /\ load_out = <<>>
    /\ split_seen = {}

-----------------------------------------------------------------------------
(* SpecQuery: a RAGChain built on an arbitrary retriever *)

QInit == QueryInit /\ ServiceInit /\ ChunkerInit /\ LoadInit

QBegin ==
    /\ QueryIdle
    /\ \E q \in Questions : BeginQuery(q, MaxDocs)
    /\ UNCHANGED <<serviceVars, chunkerVars, loadVars>>

QNext ==
    \/ QBegin
    \/ Retrieve(ListsUpTo(DocUniverse, MaxDocs)) /\ UNCHANGED <<serviceVars, chunkerVars, loadVars>>
    \/ RetrieverRaises /\ UNCHANGED <<serviceVars, chunkerVars, loadVars>>
    \/ Filter /\ UNCHANGED <<serviceVars, chunkerVars, loadVars>>
    \/ Format /\ UNCHANGED <<serviceVars, chunkerVars, loadVars>>
    \/ CallLLM /\ UNCHANGED <<serviceVars, chunkerVars, loadVars>>
    \/ LLMRaises /\ UNCHANGED <<serviceVars, chunkerVars, loadVars>>
    \/ Extract /\ UNCHANGED <<serviceVars, chunkerVars, loadVars>>
    \/ Return /\ UNCHANGED <<serviceVars, chunkerVars, loadVars>>

SpecQuery == QInit /\ [][QNext]_vars


-----------------------------------------------------------------------------
(* SpecLoad: the loader, the metadata extractor and the chunker on inputs *)

TextKept == Rep("x", MinPageLen + 1)
TextBlankTail == Rep("x", MinPageLen) \o <<" ", "\n">>
TextHyphen ==
    <<"A", "s", "s", "e", "s", "s", "-", "\n", "m", "e", "n", "t", " ", "o", "f",
      "\n", "t", "a", "x">>

PageTexts == {TextKept, TextBlankTail, TextHyphen}

ListsFromTo(S, lo, hi) == {l \in ListsUpTo(S, hi) : Len(l) >= lo}

Pdfs ==
    {[readable |-> TRUE, pages |-> ps] : ps \in ListsFromTo(PageTexts, 1, MaxPages)}
    \cup {[readable |-> FALSE, pages |-> <<>>]}

PathA == <<"d", "a", "t", "a", "/", "r", "a", "w", "/">> \o NameA
PathB1 == <<"d", "a", "t", "a", "/", "r", "a", "w", "/">> \o NameB1
Paths == {PathA, PathB1, NameA}

Producer == "producer" :> PyStr(<<"p", "y", "p", "d", "f">>)

\* metadata a page document may come with: as PyPDFLoader writes it, with
\* further keys, without 'page', and with a key enrich_metadata writes
RawMetadata ==
    { ("source" :> PyStr(PathA)) @@ ("page" :> PyInt(0)),
      ("source" :> PyStr(PathA)) @@ ("page" :> PyInt(9)) @@ Producer,
      Producer,
      ("page" :> PyInt(4)) @@ ("citation" :> PyStr(<<"o", "l", "d">>)) }

RawDocs == {[page_content |-> t, metadata |-> m] : t \in {TextKept, <<>>},
                                                   m \in RawMetadata}

\* documents handed to split_documents
SplitInputs ==
    { <<>>,
      <<[page_content |-> TextKept, metadata |-> Meta(NameA, 1)]>>,
      <<[page_content |-> clean_text(TextHyphen), metadata |-> Meta(NameA, 2)]>>,
      <<[page_content |-> Rep("y", 2 * MinPageLen), metadata |-> Meta(NameB1, 3)]>>,
      <<[page_content |-> TextKept, metadata |-> Meta(NameA, 1)],
        [page_content |-> clean_text(TextHyphen), metadata |-> Meta(NameB1, 1)]>> }

\* TextChunker(chunk_size, chunk_overlap): the arguments a caller may pass
ChunkSizeArgs == {PyNone, PyInt(SmallChunkSize)}
ChunkOverlapArgs == {PyNone, PyInt(0), PyInt(SmallChunkOverlap)}

LInit == QueryInit /\ ServiceInit /\ ChunkerInit /\ LoadInit

LPreprocess ==
    /\ \E documents \in ListsUpTo(RawDocs, 2) :
        /\ load_in' = [op |-> "preprocess", documents |-> documents]
        /\ load_out' = preprocess_documents(documents)
    /\ UNCHANGED <<queryVars, serviceVars, chunkerVars, split_seen>>

LEnrich ==
    /\ \E doc \in RawDocs, file_path \in Paths :
        /\ load_in' = [op |-> "enrich", doc |-> doc, file_path |-> file_path]
        /\ load_out' = enrich_metadata(doc, file_path)
    /\ UNCHANGED <<queryVars, serviceVars, chunkerVars, split_seen>>

LLoadPdf ==
    /\ \E pdf \in Pdfs, file_path \in Paths :
        /\ load_in' = [op |-> "load_pdf", pdf |-> pdf, file_path |-> file_path]
        /\ load_out' = load_pdf(file_path, pdf)
    /\ UNCHANGED <<queryVars, serviceVars, chunkerVars, split_seen>>

LNext == LPreprocess \/ LEnrich \/ LLoadPdf

SpecLoad == LInit /\ [][LNext]_vars

-----------------------------------------------------------------------------
(* SpecChunk: one TextChunker object, split_documents called again and again *)

\* RecursiveCharacterTextSplitter refuses an overlap larger than the size
CInit ==
    /\ QueryInit /\ ServiceInit /\ LoadInit
    /\ \E size_arg \in ChunkSizeArgs, overlap_arg \in ChunkOverlapArgs :
        /\ chunker_args = [chunk_size |-> size_arg, chunk_overlap |-> overlap_arg]
        /\ chunk_size = InitChunkSize(size_arg, DefaultChunkSize)
        /\ chunk_overlap = InitChunkOverlap(overlap_arg, DefaultChunkOverlap)
    /\ chunk_overlap <= chunk_size

CSplit ==
    /\ \E documents \in SplitInputs : TextChunker_split_documents(documents)
    /\ UNCHANGED <<queryVars, serviceVars>>

CNext == CSplit

SpecChunk == CInit /\ [][CNext]_vars

-----------------------------------------------------------------------------
(* SpecClean: clean_text applied to one text *)

\* the pieces the texts are made of: a word character, a hyphen, a hyphen at
\* a line end, a newline, a space, a tab, and the placeholder text itself
TextTokens ==
    {<<"a">>, <<"-">>, <<"-", "\n">>, <<"\n">>, <<" ">>, <<"\t">>, Placeholder}

RECURSIVE Flatten(_)
Flatten(ss) == IF ss = <<>> THEN <<>> ELSE Head(ss) \o Flatten(Tail(ss))

CleanTexts == {Flatten(ts) : ts \in ListsUpTo(TextTokens, MaxTokens)}

TInit ==
    /\ QueryInit /\ ServiceInit /\ ChunkerInit
    /\ \E text \in CleanTexts : load_in = [op |-> "text", text |-> text]
    /\ load_out = <<>>
    /\ split_seen = {}

TClean ==
    /\ load_in.op = "text"
    /\ load_in' = [op |-> "clean_text", text |-> load_in.text]
    /\ load_out' = clean_text(load_in.text)
    /\ UNCHANGED <<queryVars, serviceVars, chunkerVars, split_seen>>

TNext == TClean

SpecClean == TInit /\ [][TNext]_vars

-----------------------------------------------------------------------------
(* VectorDBService *)

\* self.vectorstore after load_vectorstore: the Chroma constructor returned
\* (ok) or raised, and the except clause returned None without assigning
load_vectorstore(handle, ok) == IF ok THEN "Chroma" ELSE handle

create_vectorstore_reset(handle, persisted, documents, force_refresh, ok) ==
    LET base == IF force_refresh THEN <<>> ELSE persisted
    IN  [vectorstore |-> IF ok THEN "Chroma" ELSE "None",
         store |-> IF ok THEN base \o documents ELSE base,
         raised |-> ~ok]

\* create_vectorstore: the persist directory is cleared on force_refresh, then
\* Chroma.from_documents adds the documents to the persisted collection (ok)
\* or raises, and the exception is raised again
create_vectorstore(handle, persisted, documents, force_refresh, ok) ==
    LET base == IF force_refresh THEN <<>> ELSE persisted
    IN  [vectorstore |-> IF ok THEN "Chroma" ELSE handle,
         store |-> IF ok THEN base \o documents ELSE base,
         raised |-> ~ok]

\* add_documents: load when there is no handle, create when there is still
\* none, else add to the collection (ok) or raise
add_documents(handle, persisted, documents, load_ok, ok) ==
    LET loaded == IF handle = "None" THEN load_vectorstore(handle, load_ok) ELSE handle
    IN  IF loaded = "None"
        THEN create_vectorstore(loaded, persisted, documents, FALSE, ok)
        ELSE [vectorstore |-> loaded,
              store |-> IF ok THEN persisted \o documents ELSE persisted,
              raised |-> ~ok]

-----------------------------------------------------------------------------
(* The API service: routes.py *)

DotPdf == <<".", "p", "d", "f">>
RAW_DATA_PATH == <<"d", "a", "t", "a", "/", "r", "a", "w">>

NameTxt == NameA \o <<".", "t", "x", "t">>
NameC == <<"c", ".", "p", "d", "f">>

\* text of a page long enough to be split under the environment's chunk size
TextLong == Rep("x", EnvChunkSize + EnvChunkOverlap + 1)

\* the files a client may upload: two PDFs with text (the first page of one
\* is blank after cleaning), a file that is no PDF, a PDF that cannot be read
UploadFiles ==
    { [filename |-> NameA, pdf |-> [readable |-> TRUE, pages |-> <<TextBlankTail, TextKept>>]],
      [filename |-> NameB1, pdf |-> [readable |-> TRUE, pages |-> <<TextLong>>]],
      [filename |-> NameTxt, pdf |-> [readable |-> TRUE, pages |-> <<TextLong>>]],
      [filename |-> NameC, pdf |-> [readable |-> FALSE, pages |-> <<>>]] }

\* the content of the file saved under a name
SavedFile(name) == (CHOOSE f \in UploadFiles : f.filename = name).pdf

\* Path(settings.RAW_DATA_PATH) / filename, os.path.join(data_path, filename)
PathOf(filename) == RAW_DATA_PATH \o <<"/">> \o filename

\* document_loader.load_pdf(path) of each file once saved in the data folder
\* (a saved file does not change, so neither does what load_pdf returns)
LoadedFile ==
    [name \in {f.filename : f \in UploadFiles} |-> load_pdf(PathOf(name), SavedFile(name))]

FilenameAccepted_contains(filename) == Contains(filename, DotPdf)

\* file.filename.endswith('.pdf')
FilenameAccepted(filename) == EndsWith(filename, DotPdf)

Handling == pc = "idle"

\* POST /upload
upload_document(file, load_ok, ok) ==
    /\ Handling
    /\ request' = [op |-> "upload", filename |-> file.filename]
    /\ IF ~FilenameAccepted(file.filename)
       THEN /\ response' = [op |-> "upload", status |-> 400]
            /\ UNCHANGED <<data_folder, vectorstore, store>>
       ELSE LET documents == LoadedFile[file.filename]
                chunks == split_documents(documents, chunk_size, chunk_overlap)
                added == add_documents(vectorstore, store, chunks, load_ok, ok)
            IN  /\ data_folder' = data_folder \cup {file.filename}
                /\ IF documents = <<>>
                   THEN /\ response' = [op |-> "upload", status |-> 500]
                        /\ UNCHANGED <<vectorstore, store>>
                   ELSE /\ Len(added.store) <= MaxStore
                        /\ vectorstore' = added.vectorstore
                        /\ store' = added.store
                        /\ response' =
                               IF added.raised THEN [op |-> "upload", status |-> 500]
                               ELSE [op |-> "upload", status |-> 200,
                                     body |-> [filename |-> file.filename,
                                               pages_loaded |-> Len(documents),
                                               chunks_created |-> Len(chunks)]]
    /\ UNCHANGED <<queryVars, chunkerVars, loadVars>>

\* the orders in which os.listdir may give a set of names
Orders(S) == {l \in ListsFromTo(S, Cardinality(S), Cardinality(S)) :
                 \A i, j \in 1..Len(l) : i # j => l[i] # l[j]}

RECURSIVE LoadEach(_)
LoadEach(names) ==
    IF names = <<>> THEN <<>>
    ELSE LoadedFile[Head(names)] \o LoadEach(Tail(names))

\* DocumentLoader.load_all_pdfs with the listing order pdf_files
load_all_pdfs(pdf_files) == LoadEach(pdf_files)

\* len(set(doc.metadata.get('source_file') for doc in documents))
DocumentsLoaded(documents) ==
    Cardinality({Get(documents[i].metadata, "source_file", PyNone) : i \in 1..Len(documents)})

\* POST /initialize
initialize_system(pdf_files, ok) ==
    /\ Handling
    /\ request' = [op |-> "initialize"]
    /\ LET documents == load_all_pdfs(pdf_files)
           chunks == split_documents(documents, chunk_size, chunk_overlap)
           created == create_vectorstore(vectorstore, store, chunks, FALSE, ok)
       IN  /\ IF documents = <<>>
              THEN /\ response' = [op |-> "initialize", status |-> 200,
                                   body |-> [status |-> "no_documents"]]
                   /\ UNCHANGED <<vectorstore, store>>
              ELSE /\ Len(created.store) <= MaxStore
                   /\ vectorstore' = created.vectorstore
                   /\ store' = created.store
                   /\ response' =
                          IF created.raised THEN [op |-> "initialize", status |-> 500]
                          ELSE [op |-> "initialize", status |-> 200,
                                body |-> [status |-> "success",
                                          documents_loaded |-> DocumentsLoaded(documents),
                                          pages_loaded |-> Len(documents),
                                          chunks_created |-> Len(chunks)]]
    /\ UNCHANGED <<queryVars, data_folder, chunkerVars, loadVars>>

\* what a retriever with search_kwargs k may return: min(k, number of stored
\* chunks) different stored chunks, ranked in any order
TopK(persisted, top) ==
    LET n == Min(top, Len(persisted))
    IN  {[i \in 1..n |-> persisted[l[i]]] :
            l \in {m \in ListsFromTo(1..Len(persisted), n, n) :
                      \A i, j \in 1..n : i # j => m[i] # m[j]}}

\* how far a request got: RAGChain(retriever) raised, the retriever raised,
\* the LLM call raised, or rag.query returned
Outcomes == {"no_api_key", "retriever_raised", "llm_raised", "returned"}

\* POST /query; steps' is what RAGChain.query performed for this request
query_documents(q, top, outcome, found, llm_answer) ==
    /\ Handling
    /\ request' = [op |-> "query", question |-> q, k |-> top]
    /\ IF vectorstore = "None"
       THEN /\ response' = [op |-> "query", status |-> 503]
            /\ steps' = <<>>
       ELSE IF outcome = "no_api_key"
       THEN /\ response' = [op |-> "query", status |-> 500]
            /\ steps' = <<>>
       ELSE IF outcome = "retriever_raised"
       THEN /\ response' = [op |-> "query", status |-> 500]
            /\ steps' = <<"retrieve">>
       ELSE IF outcome = "llm_raised"
       THEN /\ response' = [op |-> "query", status |-> 500]
            /\ steps' = <<"retrieve", "filter", "format", "llm">>
       ELSE LET res == RAGChain_query(q, found, llm_answer)
            IN  /\ response' =
                       [op |-> "query", status |-> 200,
                        body |-> [answer |-> res.answer,
                                  sources |-> [i \in 1..Len(res.citations) |->
                                      [source |-> res.citations[i].document,
                                       page |-> res.citations[i].page,
                                       content |-> res.citations[i].content_preview]]]]
                /\ steps' = <<"retrieve", "filter", "format", "llm", "extract">>
    /\ UNCHANGED <<pc, question, top_k, retrieved, docs, context_str, prompt, answer,
                   citations, result>>
    /\ UNCHANGED <<vectorstore, store, data_folder, chunkerVars, loadVars>>

ingest_main_append(pdf_files, ok) ==
    /\ Handling
    /\ LET documents == load_all_pdfs(pdf_files)
           chunks == split_documents(documents, chunk_size, chunk_overlap)
           created == create_vectorstore("None", store, chunks, FALSE, ok)
       IN  IF documents = <<>>
           THEN /\ request' = [op |-> "ingest", completed |-> TRUE]
                /\ UNCHANGED store
           ELSE /\ request' = [op |-> "ingest", completed |-> ~created.raised]
                /\ store' = created.store
    /\ UNCHANGED <<queryVars, vectorstore, data_folder, response, chunkerVars, loadVars>>

\* ingest.main, run as a process of its own on the same folders, between two
\* requests of the service; completed: main returned, no exception left it
ingest_main(pdf_files, ok) ==
    /\ Handling
    /\ LET documents == load_all_pdfs(pdf_files)
           chunks == split_documents(documents, chunk_size, chunk_overlap)
           created == create_vectorstore("None", store, chunks, TRUE, ok)
       IN  IF documents = <<>>
           THEN /\ request' = [op |-> "ingest", completed |-> TRUE]
                /\ UNCHANGED store
           ELSE /\ request' = [op |-> "ingest", completed |-> ~created.raised]
                /\ store' = created.store
    /\ UNCHANGED <<queryVars, vectorstore, data_folder, response, chunkerVars, loadVars>>

\* the .pdf files of the data folder
PdfFiles == {f \in data_folder : EndsWith(f, DotPdf)}

\* the service after import of routes.py: services constructed, the
\* persisted vector store loaded or not
\* what settings.VECTOR_DB_PATH may hold when the service starts: nothing, or
\* the chunks an earlier run persisted
PersistedBefore ==
    {<<>>, split_documents(LoadedFile[NameA], DefaultChunkSize, DefaultChunkOverlap)}

Init ==
    /\ QueryInit
    /\ LoadInit
    /\ \E ok \in BOOLEAN : vectorstore = load_vectorstore("None", ok)
    /\ store \in PersistedBefore
    /\ data_folder = {}
    /\ request = [op |-> "none"]
    /\ response = [op |-> "none", status |-> 0]
    /\ chunker_args = [chunk_size |-> PyNone, chunk_overlap |-> PyNone]
    /\ \E env \in {<<DefaultChunkSize, DefaultChunkOverlap>>, <<EnvChunkSize, EnvChunkOverlap>>} :
        /\ chunk_size = InitChunkSize(PyNone, env[1])
        /\ chunk_overlap = InitChunkOverlap(PyNone, env[2])

Upload == \E file \in UploadFiles, load_ok \in BOOLEAN, ok \in BOOLEAN :
              upload_document(file, load_ok, ok)

Initialize == \E pdf_files \in Orders(PdfFiles), ok \in BOOLEAN :
                  initialize_system(pdf_files, ok)

\* the retriever's result and the LLM's answer are drawn only for a request
\* that gets as far as using them
Query ==
    \E q \in {<<"q", "1">>}, top \in 1..MaxK :
        \/ \E outcome \in Outcomes \ {"returned"} :
               query_documents(q, top, outcome, <<>>, <<>>)
        \/ /\ vectorstore # "None"
           /\ \E found \in TopK(store, top), llm_answer \in {AnswerCited, fallback_msg} :
                  query_documents(q, top, "returned", found, llm_answer)

Ingest == \E pdf_files \in Orders(PdfFiles), ok \in BOOLEAN : ingest_main(pdf_files, ok)

Next == Upload \/ Initialize \/ Query \/ Ingest

Spec == Init /\ [][Next]_vars

-----------------------------------------------------------------------------
(* Properties of the query pipeline, checked under SpecQuery *)

\* the (source_document, page_number) pair a chunk is cited under
PairOf(doc) ==
    <<Get(doc.metadata, "source_document", PyStr(Unknown)),
      Get(doc.metadata, "page_number", PyStr(<<"?">>))>>

CitedPair(c) == <<c.document, c.page>>

\* index of the first chunk of ds cited under pair p
FirstWith(ds, p) ==
    CHOOSE i \in 1..Len(ds) :
        PairOf(ds[i]) = p /\ \A j \in 1..(i - 1) : PairOf(ds[j]) # p

\* cs is the deduplicated citation list of ds
Deduplicated(cs, ds) ==
    /\ \A i \in 1..Len(ds) :
           Cardinality({j \in 1..Len(cs) : CitedPair(cs[j]) = PairOf(ds[i])}) = 1
    /\ \A j \in 1..Len(cs) : \E i \in 1..Len(ds) : PairOf(ds[i]) = CitedPair(cs[j])
    /\ \A j1, j2 \in 1..Len(cs) :
           j1 < j2 => FirstWith(ds, CitedPair(cs[j1])) < FirstWith(ds, CitedPair(cs[j2]))
    /\ \A j \in 1..Len(cs) :
           LET text == ds[FirstWith(ds, CitedPair(cs[j]))].page_content
           IN  cs[j].content_preview =
                   SubSeq(text, 1, Min(PreviewLen, Len(text))) \o <<".", ".", ".">>

\* C1: the citations _extract_citations returns for a list of chunks hold
\* exactly one entry per distinct (source_document, page_number) pair of the
\* list, no two entries share a pair, the entries are in order of first
\* occurrence and each preview is cut from the first chunk with that pair; the
\* same holds of the citations of a query result that shows citations.
C1_CitationsDeduplicated ==
    /\ pc = "return" => Deduplicated(citations, docs)
    /\ (pc = "done" /\ result.citations # <<>>) => Deduplicated(result.citations, docs)

C1_Witness ==
    /\ pc = "return"
    /\ Len(docs) = 3
    /\ Len(citations) = 2
    /\ PairOf(docs[1]) = PairOf(docs[3])
    /\ docs[1].page_content # docs[3].page_content
    /\ Len(docs[1].page_content) > PreviewLen
    /\ Len(citations[1].content_preview) = PreviewLen + 3

\* a chunk whose text, between its first and last non-whitespace character,
\* is longer than RelevantLen characters
LongerThanRelevantLen(doc) ==
    LET c == doc.page_content
    IN  \E a \in 1..(Len(c) - RelevantLen) :
            /\ c[a] \notin Whitespace
            /\ \E b \in (a + RelevantLen)..Len(c) : c[b] \notin Whitespace

\* number of places where needle occurs in hay
Occurrences(hay, needle) ==
    Cardinality({i \in 0..(Len(hay) - Len(needle)) :
                    SubSeq(hay, i + 1, i + Len(needle)) = needle})

\* C2: the chunks that reach the prompt context and the citations are exactly
\* the retrieved chunks whose stripped text is longer than 50 characters, in
\* retrieval order, whatever the question is.
C2_LengthFilter ==
    /\ pc \in {"format", "llm", "extract", "return", "done"} =>
           docs = SelectSeq(retrieved, LongerThanRelevantLen)
    /\ pc \in {"extract", "return", "done"} =>
           IF \E i \in 1..Len(retrieved) : LongerThanRelevantLen(retrieved[i])
           THEN Occurrences(prompt.context, SourceTag) =
                    Cardinality({i \in 1..Len(retrieved) : LongerThanRelevantLen(retrieved[i])})
           ELSE prompt.context = fallback_msg
    /\ pc = "return" =>
           {CitedPair(citations[j]) : j \in 1..Len(citations)} =
               {PairOf(retrieved[i]) :
                    i \in {n \in 1..Len(retrieved) : LongerThanRelevantLen(retrieved[n])}}

C2_Witness ==
    /\ pc = "return"
    /\ Len(retrieved) = 3
    /\ Len(retrieved[1].page_content) > RelevantLen
    /\ ~LongerThanRelevantLen(retrieved[1])
    /\ docs = <<retrieved[2], retrieved[3]>>
    /\ retrieved[2] # retrieved[3]
    /\ Len(Strip(retrieved[3].page_content)) < Len(retrieved[3].page_content)

\* C3: a returned answer that contains the fallback sentence comes with no
\* citations; any other answer comes with the deduplicated citations of the
\* chunks that passed the filter.
C3_FallbackHidesCitations ==
    pc = "done" =>
        IF Contains(result.answer, fallback_msg)
        THEN result.citations = <<>>
        ELSE Deduplicated(result.citations, SelectSeq(retrieved, LongerThanRelevantLen))

C3_Witness ==
    /\ pc = "done"
    /\ Contains(result.answer, fallback_msg)
    /\ result.answer # fallback_msg
    /\ docs # <<>>
    /\ result.citations = <<>>

QueryOrder == <<"retrieve", "filter", "format", "llm", "extract">>

\* C6: a query performs retrieve, filter, format, LLM call, citation extraction
\* in this order, each once; a query that returns has called the retriever
\* once and the LLM once, also when the filter left no chunk, and the context
\* in the prompt is then the fallback sentence: the context is never blank.
C6_QueryOrder ==
    /\ Len(steps) <= Len(QueryOrder)
    /\ steps = SubSeq(QueryOrder, 1, Len(steps))
    /\ pc \in {"return", "done"} => steps = QueryOrder
    /\ "llm" \in {steps[i] : i \in 1..Len(steps)} =>
           /\ Strip(prompt.context) # <<>>
           /\ docs = <<>> => prompt.context = fallback_msg

C6_Witness ==
    /\ pc = "done"
    /\ retrieved # <<>>
    /\ docs = <<>>
    /\ steps = QueryOrder
    /\ prompt.context = fallback_msg


-----------------------------------------------------------------------------
(* Properties of the ingestion pipeline, checked under SpecLoad *)

\* name is what follows the last "/" of path
IsBaseNameOf(name, path) ==
    /\ Len(name) <= Len(path)
    /\ name = SubSeq(path, Len(path) - Len(name) + 1, Len(path))
    /\ \A i \in 1..Len(name) : name[i] # "/"
    /\ Len(name) = Len(path) \/ path[Len(path) - Len(name)] = "/"

WrittenKeys == {"source_document", "file_path", "page_number", "citation"}

\* meta is the citation metadata of a page with metadata old loaded from path
CitationMetadata(meta, old, path) ==
    /\ WrittenKeys \subseteq DOMAIN meta
    /\ meta["page_number"] = PyInt(IF "page" \in DOMAIN old THEN old["page"].n + 1 ELSE 1)
    /\ meta["source_document"].t = "str"
    /\ IsBaseNameOf(meta["source_document"].s, path)
    /\ meta["file_path"] = PyStr(path)
    /\ meta["citation"] =
           PyStr(meta["source_document"].s
                 \o <<" ", "-", " ", "P", "a", "g", "e", " ">>
                 \o IntToStr(meta["page_number"].n))
    /\ DOMAIN old \subseteq DOMAIN meta
    /\ \A key \in DOMAIN old \ WrittenKeys : meta[key] = old[key]

\* C4: enrich_metadata returns page_number = 'page' + 1 (1 without 'page'),
\* source_document = base name of the path, file_path = the path, citation =
\* "<source_document> - Page <page_number>", keeps every key the page had and
\* leaves the input document as it was; load_pdf gives every page it returns
\* this metadata.
C4_PageCitationMetadata ==
    /\ load_in.op = "enrich" =>
           /\ CitationMetadata(load_out.meta, load_in.doc.metadata, load_in.file_path)
           /\ load_out.doc = load_in.doc
    /\ load_in.op = "load_pdf" =>
           \A k \in 1..Len(load_out) :
               \E i \in 1..Len(load_in.pdf.pages) :
                   CitationMetadata(load_out[k].metadata,
                                    PyPDFLoad(load_in.file_path, load_in.pdf.pages)[i].metadata,
                                    load_in.file_path)

C4_Witness ==
    /\ load_in.op = "enrich"
    /\ "page" \notin DOMAIN load_in.doc.metadata
    /\ "producer" \in DOMAIN load_out.meta
    /\ load_out.meta["page_number"] = PyInt(1)
    /\ Len(load_out.meta["source_document"].s) < Len(load_in.file_path)

\* the k-th smallest element of a set of numbers
Nth(S, k) == CHOOSE i \in S : Cardinality({j \in S : j < i}) = k - 1

\* positions of the texts whose cleaned text is longer than MinPageLen
Surviving(texts) == {i \in 1..Len(texts) : Len(clean_text(texts[i])) > MinPageLen}

\* C5: preprocess_documents returns exactly the pages whose cleaned text is
\* longer than 10 characters, in order, with their metadata unchanged; after
\* load_pdf the page_number of a surviving page is its position in the PDF.
C5_PagesKeepTheirNumber ==
    /\ load_in.op = "preprocess" =>
           LET ds == load_in.documents
               keep == Surviving([i \in 1..Len(ds) |-> ds[i].page_content])
           IN  /\ Len(load_out) = Cardinality(keep)
               /\ \A k \in 1..Len(load_out) :
                      /\ load_out[k].metadata = ds[Nth(keep, k)].metadata
                      /\ load_out[k].page_content = clean_text(ds[Nth(keep, k)].page_content)
    /\ load_in.op = "load_pdf" =>
           LET keep == IF load_in.pdf.readable THEN Surviving(load_in.pdf.pages) ELSE {}
           IN  /\ Len(load_out) = Cardinality(keep)
               /\ \A k \in 1..Len(load_out) :
                      /\ load_out[k].metadata["page_number"] = PyInt(Nth(keep, k))
                      /\ load_out[k].page_content = clean_text(load_in.pdf.pages[Nth(keep, k)])

C5_Witness ==
    /\ load_in.op = "load_pdf"
    /\ Len(load_in.pdf.pages) = 3
    /\ Len(load_in.pdf.pages[1]) > MinPageLen
    /\ Len(load_out) = 2
    /\ load_out[1].metadata["page_number"] = PyInt(2)
    /\ load_out[2].metadata["page_number"] = PyInt(3)

-----------------------------------------------------------------------------
(* Properties of the service, checked under Spec *)

\* C7: a query that finds the vector-store handle None is answered 503 and
\* performs no step of RAGChain.query; no operation sets a handle that is not
\* None back to None; a query that finds a handle is never answered 503.
C7_QueryAvailability ==
    /\ [][(request'.op = "query" /\ vectorstore = "None") =>
              (response' = [op |-> "query", status |-> 503] /\ steps' = <<>>)]_vars
    /\ [][vectorstore # "None" => vectorstore' # "None"]_vars
    /\ [][(request'.op = "query" /\ vectorstore # "None") =>
              (response'.op = "query" /\ response'.status # 503)]_vars

C7_Witness ==
    /\ request.op = "query"
    /\ response.op = "query"
    /\ response.status = 200
    /\ vectorstore = "Chroma"
    /\ Len(response.body.sources) > 0

\* name ends in the four characters ".pdf"
NameEndsInPdf(name) ==
    /\ Len(name) >= 4
    /\ name[Len(name) - 3] = "."
    /\ name[Len(name) - 2] = "p"
    /\ name[Len(name) - 1] = "d"
    /\ name[Len(name)] = "f"

\* C9: an upload whose filename does not end in ".pdf" is answered 400 and
\* writes no file to the data folder and adds no chunk to the vector index.
C9_OnlyPdfAccepted ==
    [][(request'.op = "upload" /\ ~NameEndsInPdf(request'.filename)) =>
           /\ response' = [op |-> "upload", status |-> 400]
           /\ data_folder' = data_folder
           /\ store' = store
           /\ vectorstore' = vectorstore]_vars

C9_Witness ==
    /\ request.op = "upload"
    /\ Contains(request.filename, DotPdf)
    /\ ~NameEndsInPdf(request.filename)
    /\ response = [op |-> "upload", status |-> 400]
    /\ store # <<>>

\* C10: documents_loaded of a successful initialize_system response is the
\* number of PDF files of the data folder that gave at least one page.
C10_DocumentsLoadedCountsFiles ==
    (/\ request.op = "initialize"
     /\ response.op = "initialize"
     /\ response.status = 200
     /\ response.body.status = "success") =>
        response.body.documents_loaded = Cardinality({f \in PdfFiles : LoadedFile[f] # <<>>})

-----------------------------------------------------------------------------
(* Properties of clean_text, checked under SpecClean *)

\* s from position i on with every "-\n" that stands between two word
\* characters taken out
RECURSIVE JoinHyphenBreaks(_, _)
JoinHyphenBreaks(s, i) ==
    IF i > Len(s) THEN <<>>
    ELSE IF /\ s[i] = "-"
            /\ i > 1 /\ s[i - 1] \in WordChars
            /\ i + 2 <= Len(s)
            /\ s[i + 1] = "\n"
            /\ s[i + 2] \in WordChars
    THEN JoinHyphenBreaks(s, i + 2)
    ELSE <<s[i]>> \o JoinHyphenBreaks(s, i + 1)

\* C11: clean_text joins the two word fragments of every hyphenated line
\* break of its input, consecutive ones included: the output is the one of
\* the input with every such hyphen and newline taken out.
C11_HyphenBreaksRepaired ==
    load_in.op = "clean_text" =>
        load_out = clean_text(JoinHyphenBreaks(load_in.text, 1))

\* the newlines of s stand in runs of exactly two
NewlinesInPairs(s) ==
    \A i \in 1..Len(s) :
        s[i] = "\n" =>
            LET before == i > 1 /\ s[i - 1] = "\n"
                after == i < Len(s) /\ s[i + 1] = "\n"
                before2 == i > 2 /\ s[i - 2] = "\n"
                after2 == i + 2 <= Len(s) /\ s[i + 2] = "\n"
            IN  \/ before /\ ~after /\ ~before2
                \/ after /\ ~before /\ ~after2

NormalForm(s) ==
    /\ s # <<>> => (s[1] \notin Whitespace /\ s[Len(s)] \notin Whitespace)
    /\ \A i \in 1..(Len(s) - 1) :
           ~(s[i] \in {" ", "\t"} /\ s[i + 1] \in {" ", "\t"})
    /\ NewlinesInPairs(s)

\* C12: the output of clean_text has no whitespace at either end, no run of
\* two or more spaces or tabs, and newlines only in paragraph breaks of
\* exactly two; the empty input gives the empty string.
C12_CleanedNormalForm ==
    load_in.op = "clean_text" =>
        /\ NormalForm(load_out)
        /\ load_in.text = <<>> => load_out = <<>>

-----------------------------------------------------------------------------
(* Properties of the TextChunker constructor, checked under SpecChunk *)

\* C13: a chunk_size or chunk_overlap argument given to TextChunker is the
\* value the chunker splits with, a chunk_overlap of 0 included; the setting
\* is used only for an argument that is not given.
C13_ArgumentsBeforeSettings ==
    /\ chunker_args.chunk_size # PyNone => chunk_size = chunker_args.chunk_size.n
    /\ chunker_args.chunk_overlap # PyNone => chunk_overlap = chunker_args.chunk_overlap.n
    /\ chunker_args.chunk_size = PyNone => chunk_size = DefaultChunkSize
    /\ chunker_args.chunk_overlap = PyNone => chunk_overlap = DefaultChunkOverlap

-----------------------------------------------------------------------------
(* Properties of batch ingestion, checked under Spec *)

\* index holds every chunk of the given files once and nothing else
IndexHoldsExactly(index, files) ==
    /\ {index[i] : i \in 1..Len(index)} =
           UNION {LET chunks == split_documents(LoadedFile[f], chunk_size, chunk_overlap)
                  IN  {chunks[i] : i \in 1..Len(chunks)} : f \in files}
    /\ \A i, j \in 1..Len(index) : index[i] = index[j] => i = j

\* C14: a run of ingest.main that completes with a loadable PDF in the data
\* folder leaves in the index exactly the chunks of that run and nothing
\* that was stored before; a run that finds no document leaves the index as
\* it was.
C14_IngestReplacesIndex ==
    [][request'.op = "ingest" =>
           LET loadable == {f \in PdfFiles : LoadedFile[f] # <<>>}
           IN  /\ loadable = {} => (request'.completed /\ store' = store)
               /\ (loadable # {} /\ request'.completed) =>
                      IndexHoldsExactly(store', loadable)]_vars

C14_Witness ==
    /\ request = [op |-> "ingest", completed |-> TRUE]
    /\ response.op = "upload"
    /\ response.status = 200
    /\ IndexHoldsExactly(store, {NameA, NameB1})
    /\ data_folder = {NameA, NameB1}

=============================================================================
